---- MODULE Spec2Model ----
(***************************************************************************)
(* Smart Jotter: the capture -> recognition -> extraction -> review        *)
(* pipeline.  The orchestrator is the SmartJotter component, in its two    *)
(* variants: "inline" (components/smart-jotter/SmartJotter.tsx, textarea    *)
(* controlled by inputData, served by the recognize and parse routes) and  *)
(* "composed" (unnamed/part_009, which renders InputSection, TextInput and *)
(* CanvasInput with their own local state and posts to /api/ocr and        *)
(* /api/parse, endpoints that are not part of the sources).                *)
(*                                                                         *)
(* Strings are sequences of chunks.  A chunk is a single character of      *)
(* Chars, or a literal of the source (an example phrase, a data-URL        *)
(* header) that stands for its characters; a literal is never whitespace.  *)
(* Numbers in [0,1] are kept as integer percentages.                       *)
(***************************************************************************)
EXTENDS Integers, Sequences, FiniteSets, TLC

\* ------------------------------------------------------------------ bounds
MaxLen == 2
MaxStrokes == 2
MaxInFlight == 2

\* ----------------------------------------------------------------- strings
Chars == {" ", "a"}

Strings == UNION {[1..n -> Chars] : n \in 0..MaxLen}

RECURSIVE TrimStart(_)
TrimStart(s) ==
  IF s = <<>> THEN s
  ELSE IF Head(s) = " " THEN TrimStart(Tail(s)) ELSE s

RECURSIVE TrimEnd(_)
TrimEnd(s) ==
  IF s = <<>> THEN s
  ELSE IF s[Len(s)] = " " THEN TrimEnd(SubSeq(s, 1, Len(s) - 1)) ELSE s

\* String.prototype.trim
Trim(s) == TrimEnd(TrimStart(s))

\* !s.trim()
IsBlank(s) == Trim(s) = <<>>

\* null and a missing key, as values of a JSON field
Null == <<"null">>
Undefined == <<"undefined">>
NotAString == <<"number">>

\* ------------------------------------------------- literals of the sources
exampleText == <<"John Smith, 07712345678, Ford Focus 2018, YA19 ABC, Engine warning light">>

mockResponses ==
  << <<"John Smith, 07712345678, Ford Focus 2018, YA19 ABC, Engine warning light">>,
     <<"Sarah Johnson, 07823456789, BMW X3 2020, BC20 DEF, Brake service required">>,
     <<"Mike Brown, 07934567890, Audi A4 2019, CD21 GHI, Annual MOT inspection">>,
     <<"Emma Wilson, 07845678901, Mercedes C200 2017, DE18 JKL, Air conditioning repair">>,
     <<"David Taylor, 07956789012, Volkswagen Golf 2021, EF22 MNO, Oil change service">> >>

\* generateMockOCRText: the phrase is chosen by the input's length
generateMockOCRText(input) == mockResponses[(Len(input) % Len(mockResponses)) + 1]

\* canvasRef.current.toDataURL('image/png') of a canvas holding n strokes
toDataURL(n) == <<"data:image/png;base64,">> \o [i \in 1..n |-> "a"]

\* ------------------------------------------------------------ HTTP and JSON
\* a JSON object is a record holding exactly the keys that are present
Has(obj, k) == k \in DOMAIN obj

\* NextResponse.json(body, {status}); Response.ok is status in 200..299
NextResponseJson(body, status) ==
  [kind |-> "http", status |-> status, ok |-> (status >= 200 /\ status <= 299), body |-> body]

\* fetch() rejected: no response reached the caller
FetchRejected == [kind |-> "rejected"]

\* the request was sent and nothing has come back yet
Pending == [kind |-> "pending"]

\* what the external service did for a request: nothing yet
NoService == [kind |-> "none"]

\* the browser's message of a rejected fetch
FetchErrorMessage == "Failed to fetch"

\* ------------------------------------------------------- parse route (POST)
SchemaKeys == {"customer_name", "phone", "vehicle", "year", "registration", "issue", "notes"}

\* the records getMockResponse computes from the five example phrases
MockExtract ==
  << [customer_name |-> <<"John Smith">>, phone |-> <<"07712345678">>, vehicle |-> <<"Ford Focus">>,
      year |-> <<"2018">>, registration |-> <<"YA19 ABC">>, issue |-> <<"Engine warning light">>],
     [customer_name |-> <<"Sarah Johnson">>, phone |-> <<"07823456789">>, vehicle |-> <<"BMW X3">>,
      year |-> <<"2020">>, registration |-> <<"BC20 DEF">>, issue |-> Null],
     [customer_name |-> <<"Mike Brown">>, phone |-> <<"07934567890">>, vehicle |-> <<"Audi A4">>,
      year |-> <<"2019">>, registration |-> <<"CD21 GHI">>, issue |-> Null],
     [customer_name |-> <<"Emma Wilson">>, phone |-> <<"07845678901">>, vehicle |-> <<"Mercedes C200">>,
      year |-> <<"2017">>, registration |-> <<"DE18 JKL">>, issue |-> Null],
     [customer_name |-> <<"David Taylor">>, phone |-> <<"07956789012">>, vehicle |-> <<"Volkswagen Golf">>,
      year |-> <<"2021">>, registration |-> <<"EF22 MNO">>, issue |-> Null] >>

\* getMockResponse: the patterns need capitals and digits, so a text over Chars
\* matches none of them; notes is the text and the confidence is 0.7
getMockResponse(text) ==
  LET hits == {i \in 1..Len(mockResponses) : mockResponses[i] = text}
      m == IF hits = {} THEN [k \in SchemaKeys \ {"notes"} |-> Null]
           ELSE MockExtract[CHOOSE i \in hits : TRUE]
  IN [customer_name |-> m.customer_name, phone |-> m.phone, vehicle |-> m.vehicle,
      year |-> m.year, registration |-> m.registration, issue |-> m.issue,
      notes |-> text, confidence_score |-> 70]

\* usage ? Math.min(0.95, 0.5 + completion_tokens / 200) : 0.8
NoUsage == -1

UsageConfidence(tokens) ==
  IF tokens = NoUsage THEN 80
  ELSE IF 50 + (tokens \div 2) < 95 THEN 50 + (tokens \div 2) ELSE 95

\* BookingDataSchema.parse: every key a string or null, confidence in [0,1]
SchemaAccepts(obj) ==
  /\ \A k \in SchemaKeys : Has(obj, k) /\ obj[k] # NotAString /\ obj[k] # Undefined
  /\ Has(obj, "confidence_score") => (obj.confidence_score >= 0 /\ obj.confidence_score <= 100)

\* error.message.includes('API key')
MessageNamesApiKey(message) == message = "Incorrect API key provided"

\* request.json(): a body can be read once; a second read rejects
RequestJson(request) ==
  IF request.bodyUsed THEN [threw |-> TRUE]
  ELSE [threw |-> FALSE, value |-> request.body]

\* the fallback of the catch block, on the request as the try block left it
ParseFallback(request) ==
  LET again == RequestJson(request)
  IN IF again.threw
       THEN NextResponseJson([error |-> "Parsing failed completely", success |-> FALSE], 500)
       ELSE NextResponseJson([success |-> TRUE, data |-> getMockResponse(again.value.text),
                              mock |-> TRUE, error |-> "AI parsing failed, using fallback parsing",
                              message |-> "Add OPENAI_API_KEY for better AI parsing"], 200)

\* a catch block without the branch for ZodError
ParseCatch_NoZodBranch(request, err) ==
  IF MessageNamesApiKey(err.message)
    THEN NextResponseJson([error |-> "OpenAI API configuration error", success |-> FALSE], 500)
  ELSE ParseFallback(request)

\* the catch block of POST
ParseCatch(request, err) ==
  IF err.zod
    THEN NextResponseJson([error |-> "Invalid data format from AI parsing",
                           details |-> "errors", success |-> FALSE], 422)
  ELSE IF MessageNamesApiKey(err.message)
    THEN NextResponseJson([error |-> "OpenAI API configuration error", success |-> FALSE], 500)
  ELSE ParseFallback(request)

\* a parse route without the branch for a missing API key: the client is
\* built without a key and the call throws
ParsePOST_NoMockBranch(body, apiKey, llm) ==
  IF ~Has(body, "text") \/ body.text = <<>>
    THEN NextResponseJson([error |-> "Text is required and must be a string"], 400)
    ELSE ParseCatch([body |-> body, bodyUsed |-> TRUE],
                    [zod |-> FALSE, message |-> "Connection error."])

\* POST of the parse route: body is the request's JSON body, apiKey tells whether
\* OPENAI_API_KEY is set, llm is what the language-model service does
ParsePOST(body, apiKey, llm) ==
  LET first == RequestJson([body |-> body, bodyUsed |-> FALSE])
      request == [body |-> body, bodyUsed |-> TRUE]
      text == IF Has(first.value, "text") THEN first.value.text ELSE Undefined
  IN IF text = Undefined \/ text = Null \/ text = NotAString \/ text = <<>>
       THEN NextResponseJson([error |-> "Text is required and must be a string"], 400)
     ELSE IF ~apiKey
       THEN NextResponseJson([success |-> TRUE, data |-> getMockResponse(text), mock |-> TRUE,
                              message |-> "Using mock parsing - add OPENAI_API_KEY for AI parsing"], 200)
     ELSE IF llm.kind = "throws"
       THEN ParseCatch(request, [zod |-> FALSE, message |-> llm.message])
     ELSE IF llm.kind = "empty"
       THEN ParseCatch(request, [zod |-> FALSE, message |-> "No response from OpenAI"])
     ELSE IF llm.kind = "notjson"
       THEN ParseCatch(request, [zod |-> FALSE, message |-> "Invalid JSON response from OpenAI"])
     ELSE LET parsedData == [k \in DOMAIN llm.value \cup {"confidence_score"} |->
                               IF k = "confidence_score" THEN UsageConfidence(llm.tokens)
                               ELSE llm.value[k]]
          IN IF ~SchemaAccepts(parsedData)
               THEN ParseCatch(request, [zod |-> TRUE, message |-> "ZodError"])
               ELSE NextResponseJson(
                      [success |-> TRUE,
                       data |-> [k \in SchemaKeys \cup {"confidence_score"} |-> parsedData[k]],
                       mock |-> FALSE,
                       usage |-> IF llm.tokens = NoUsage THEN 0 ELSE llm.tokens], 200)

\* --------------------------------------------------- recognize route (POST)
\* a JSON string field that is absent or '' is falsy
Falsy(obj, k) == ~Has(obj, k) \/ obj[k] = <<>> \/ obj[k] = Null

\* value || ''
OrEmpty(obj, k) == IF Falsy(obj, k) THEN <<>> ELSE obj[k]

RecognizeInvalid(message) ==
  NextResponseJson([success |-> FALSE, text |-> <<>>, confidence |-> 0, error |-> message], 400)

\* processImageWithMyScript / processStrokesWithMyScript, then the final answer:
\* a failure of the service is rethrown and answered 500 by the catch block
RecognizeWithMyScript(service) ==
  IF service.kind = "throws"
    THEN NextResponseJson([success |-> FALSE, text |-> <<>>, confidence |-> 0,
                           error |-> "Failed to process with MyScript"], 500)
    ELSE NextResponseJson([success |-> TRUE, text |-> Trim(service.text),
                           confidence |-> IF service.confidence = 0 THEN 80 ELSE service.confidence],
                          200)

\* 'mock-input', the ten characters the route hashes when there is no image
mockInput == <<"m", "o", "c", "k", "-", "i", "n", "p", "u", "t">>

\* a recognize route without the branch for missing keys: the request is
\* signed without keys and the recognition service refuses it
RecognizePOST_NoMockBranch(body, keys, service) ==
  IF Falsy(body, "imageData") /\ Falsy(body, "strokeData")
    THEN RecognizeInvalid("No input data provided. Please provide either imageData or strokeData.")
    ELSE RecognizeWithMyScript([kind |-> "throws"])

\* POST of the recognize route: keys tells whether MYSCRIPT_API_KEY and
\* MYSCRIPT_HMAC_KEY are both set, service is what the recognition service does
RecognizePOST(body, keys, service) ==
  IF Falsy(body, "imageData") /\ Falsy(body, "strokeData")
    THEN RecognizeInvalid("No input data provided. Please provide either imageData or strokeData.")
  ELSE IF ~keys
    THEN NextResponseJson(
           [success |-> TRUE,
            text |-> generateMockOCRText(IF Falsy(body, "imageData") THEN mockInput
                                         ELSE body.imageData),
            confidence |-> 85,
            error |-> "Using mock response - MyScript API keys not configured"], 200)
  ELSE IF Has(body, "inputType") /\ body.inputType = "image" /\ ~Falsy(body, "imageData")
    THEN RecognizeWithMyScript(service)
  ELSE IF Has(body, "inputType") /\ body.inputType = "strokes" /\ ~Falsy(body, "strokeData")
    THEN RecognizeWithMyScript(service)
  ELSE RecognizeInvalid("Invalid input type or missing data for the specified input type.")

\* the recognize route issues a request to the recognition service only past
\* its validation and its check of the keys, for an input of a known type
RecognizeCallsMyScript(body, keys) ==
  /\ ~(Falsy(body, "imageData") /\ Falsy(body, "strokeData"))
  /\ keys
  /\ Has(body, "inputType")
  /\ \/ body.inputType = "image" /\ ~Falsy(body, "imageData")
     \/ body.inputType = "strokes" /\ ~Falsy(body, "strokeData")

\* the parse route issues a request to the language-model service only past its
\* validation of the text and its check of the key
ParseCallsOpenAI(body, apiKey) ==
  /\ Has(body, "text") /\ body.text \notin {Null, NotAString, <<>>}
  /\ apiKey

\* ------------------------------------------------ what the services can do
\* replies of the language-model service to the extraction prompt
LLMReplies ==
  { [customer_name |-> <<"a">>, phone |-> <<"a">>, vehicle |-> Null, year |-> Null,
     registration |-> Null, issue |-> <<"a">>, notes |-> Null],
    [customer_name |-> <<" ">>, phone |-> <<"a">>, vehicle |-> Null, year |-> Null,
     registration |-> Null, issue |-> <<"a">>, notes |-> Null],
    [customer_name |-> Null, phone |-> Null, vehicle |-> Null, year |-> NotAString,
     registration |-> Null, issue |-> Null, notes |-> Null],
    [customer_name |-> <<"a">>, phone |-> <<"a">>, vehicle |-> Null, year |-> Null,
     registration |-> Null, issue |-> <<"a">>] }

LLMOutcomes ==
  {[kind |-> "throws", message |-> m] : m \in {"Connection error.", "Incorrect API key provided"}}
  \cup {[kind |-> "empty"], [kind |-> "notjson"]}
  \cup {[kind |-> "json", value |-> v, tokens |-> t] : v \in LLMReplies, t \in {NoUsage, 100}}

\* outcomes of the recognition service
MyScriptOutcomes ==
  {[kind |-> "throws"]}
  \cup {[kind |-> "ok", text |-> t, confidence |-> c] : t \in {<<>>, <<" ">>, <<"a">>}, c \in {0, 90}}

\* answers of /api/ocr and /api/parse, the endpoints of the composed variant:
\* any answer of the declared shape (OCRResponse; success, data, error)
OcrEndpointAnswers ==
  {NextResponseJson([text |-> <<>>, confidence |-> 0, error |-> "service error"], 500)}
  \cup {NextResponseJson([text |-> t, confidence |-> 85], 200) : t \in {<<>>, <<" ">>, <<"a">>, mockResponses[1]}}

ParseEndpointAnswers ==
  {NextResponseJson([success |-> FALSE, error |-> "service error"], 500),
   NextResponseJson([success |-> FALSE, error |-> "service error"], 200),
   NextResponseJson([success |-> FALSE], 200)}
  \cup {NextResponseJson([success |-> TRUE, data |-> d], 200) :
          d \in {getMockResponse(exampleText),
                 [customer_name |-> <<" ">>, phone |-> <<"a">>, vehicle |-> Null, year |-> Null,
                  registration |-> Null, issue |-> <<"a">>, notes |-> Null, confidence_score |-> 0]}}

\* -------------------------------------------------------------------- state
VARIABLES
  variant,       \* which page is mounted: the SmartJotter "inline" or "composed",
                 \* or the preview page "perField" or "perForm"
  apiKey,        \* OPENAI_API_KEY is set
  myscriptKeys,  \* MYSCRIPT_API_KEY and MYSCRIPT_HMAC_KEY are both set
  inputType,     \* SmartJotter state
  inputData,
  currentStep,
  error,
  parsedData,
  isProcessing,
  runs,          \* the processInput calls suspended at an await, oldest first
  hasInput,      \* InputSection state (composed)
  text,          \* TextInput state (composed)
  strokes,       \* canvasRef.current.toData(): the strokes on the canvas of CanvasInput (composed)
  router,        \* the query of the last router.push, or NoPush
  forwarded,     \* the record last passed to onBookingCreate / onEstimateCreate
  currentData,   \* the record the preview page holds (currentData / sampleData)
  localData,     \* JotterPreview state (perField)
  fieldConfidence, \* the per-field confidences the preview page passes down
  editors,       \* the state of each EditableField (perField)
  editingField,  \* JotterPreview state (perForm)
  tempValues,
  isLoading,     \* preview page state (perForm)
  last           \* history: the last handler that ran and the step it started from

vars == <<variant, apiKey, myscriptKeys, inputType, inputData, currentStep, error,
          parsedData, isProcessing, runs, hasInput, text, strokes, router, forwarded,
          currentData, localData, fieldConfidence, editors, editingField, tempValues,
          isLoading, last>>

env == <<variant, apiKey, myscriptKeys>>
local == <<hasInput, text, strokes>>
dispatch == <<router, forwarded>>
review == <<currentData, localData, fieldConfidence, editors, editingField, tempValues, isLoading>>

\* useState<ParsedBookingData | null>(null)
NoRecord == [null |-> TRUE]

\* no router.push yet
NoPush == [none |-> TRUE]

\* {}
EmptyObject == [x \in {} |-> <<>>]

\* useState<string | null>(null): no field is being edited
NotEditing == "null"

\* the state of SmartJotter after construction
SmartJotterInit ==
  /\ inputType = IF variant = "composed" THEN "canvas" ELSE "text"
  /\ inputData = <<>>
  /\ currentStep = "input"
  /\ error = ""
  /\ parsedData = NoRecord
  /\ isProcessing = FALSE
  /\ runs = <<>>
  /\ hasInput = FALSE
  /\ text = <<>>
  /\ strokes = <<>>
  /\ router = NoPush
  /\ forwarded = NoRecord
  /\ last = [op |-> "init", from |-> "input"]

\* the preview page is not mounted
NoPreview ==
  /\ currentData = NoRecord
  /\ localData = NoRecord
  /\ fieldConfidence = NoRecord
  /\ editors = <<>>
  /\ editingField = NotEditing
  /\ tempValues = EmptyObject
  /\ isLoading = FALSE

Init ==
  /\ variant \in {"inline", "composed"}
  /\ apiKey \in BOOLEAN
  /\ myscriptKeys \in BOOLEAN
  /\ SmartJotterInit
  /\ NoPreview

Did(op) == last' = [op |-> op, from |-> currentStep]

\* ---------------------------------------------------------------- rendering
\* (currentStep === 'input' || currentStep === 'error') && <input section>
InputSectionShown == currentStep \in {"input", "error"}

\* currentStep === 'preview' && parsedData && <preview and action buttons>
PreviewShown == currentStep = "preview" /\ parsedData # NoRecord

\* a submit button that is rendered in every step and never disabled while a
\* call is pending
SubmitEnabled_WhileProcessing ==
  IF variant = "inline" THEN ~IsBlank(inputData) ELSE hasInput

\* the submit button is rendered and not disabled
SubmitEnabled ==
  /\ InputSectionShown
  /\ ~isProcessing
  /\ IF variant = "inline" THEN ~IsBlank(inputData) ELSE hasInput

\* InputSection.handleInputChange: setHasInput(!!data.trim()); onInputChange(data)
handleInputChange(data) ==
  /\ hasInput' = ~IsBlank(data)
  /\ inputData' = data

\* ------------------------------------------------------------ input capture
\* textarea onChange (inline); TextInput.handleChange (composed)
handleChange(newText) ==
  /\ InputSectionShown /\ ~isProcessing /\ inputType = "text"
  /\ IF variant = "inline"
       THEN inputData' = newText /\ UNCHANGED local
       ELSE text' = newText /\ handleInputChange(newText) /\ UNCHANGED strokes
  /\ Did("handleChange")
  /\ UNCHANGED <<env, review, dispatch, inputType, currentStep, error, parsedData, isProcessing, runs>>

\* TextInput.fillExample
fillExample ==
  /\ variant = "composed" /\ InputSectionShown /\ ~isProcessing /\ inputType = "text"
  /\ text' = exampleText /\ handleInputChange(exampleText)
  /\ Did("fillExample")
  /\ UNCHANGED <<env, review, dispatch, inputType, currentStep, error, parsedData, isProcessing, runs, strokes>>

\* TextInput.clearText
clearText ==
  /\ variant = "composed" /\ InputSectionShown /\ ~isProcessing /\ inputType = "text"
  /\ text # <<>>
  /\ text' = <<>> /\ handleInputChange(<<>>)
  /\ Did("clearText")
  /\ UNCHANGED <<env, review, dispatch, inputType, currentStep, error, parsedData, isProcessing, runs, strokes>>

\* the mode buttons: setInputType(type).  In the composed variant the other
\* capture component is mounted in place of the current one, with fresh state.
setInputType(type) ==
  /\ InputSectionShown /\ type # inputType
  /\ variant = "composed" => ~isProcessing
  /\ inputType' = type
  /\ IF variant = "composed"
       THEN text' = <<>> /\ strokes' = <<>> /\ UNCHANGED hasInput
       ELSE UNCHANGED local
  /\ Did("setInputType")
  /\ UNCHANGED <<env, review, dispatch, inputData, currentStep, error, parsedData, isProcessing, runs>>

\* the strokes a user draws
StrokeShapes == {"-", "|"}

\* data.pop()
pop(data) == SubSeq(data, 1, Len(data) - 1)

\* data.shift(), for an undo that removes the oldest stroke
shift(data) == Tail(data)

\* CanvasInput.handleEnd with the canvas holding the strokes of data
handleEnd(data) ==
  /\ strokes' = data
  /\ handleInputChange(IF data = <<>> THEN <<>> ELSE toDataURL(Len(data)))

CanvasShown == variant = "composed" /\ InputSectionShown /\ ~isProcessing /\ inputType = "canvas"

\* a stroke is drawn: SignatureCanvas onEnd={handleEnd}
drawStroke ==
  /\ CanvasShown /\ Len(strokes) < MaxStrokes
  /\ \E s \in StrokeShapes : handleEnd(Append(strokes, s))
  /\ Did("drawStroke")
  /\ UNCHANGED <<env, review, dispatch, inputType, currentStep, error, parsedData, isProcessing, runs, text>>

\* CanvasInput.clearCanvas
clearCanvas ==
  /\ CanvasShown /\ strokes # <<>>
  /\ strokes' = <<>> /\ handleInputChange(<<>>)
  /\ Did("clearCanvas")
  /\ UNCHANGED <<env, review, dispatch, inputType, currentStep, error, parsedData, isProcessing, runs, text>>

\* an undoLast that removes the oldest stroke
undoLast_Shift ==
  /\ CanvasShown /\ strokes # <<>>
  /\ handleEnd(shift(strokes))
  /\ Did("undoLast")
  /\ UNCHANGED <<env, review, dispatch, inputType, currentStep, error, parsedData, isProcessing, runs, text>>

\* CanvasInput.undoLast
undoLast ==
  /\ CanvasShown /\ strokes # <<>>
  /\ handleEnd(pop(strokes))
  /\ Did("undoLast")
  /\ UNCHANGED <<env, review, dispatch, inputType, currentStep, error, parsedData, isProcessing, runs, text>>

\* ------------------------------------------------------------- orchestrator
RemoveAt(seq, i) == SubSeq(seq, 1, i - 1) \o SubSeq(seq, i + 1, Len(seq))

\* leaving 'input'/'error' unmounts the input section: its components' state
\* is gone and starts afresh at the next mount (composed)
Unmounted == hasInput' = FALSE /\ text' = <<>> /\ strokes' = <<>>

\* processInput sending a canvas submit straight to the parse request
processInput_SkipOcr(data, type) ==
  /\ isProcessing' = TRUE
  /\ error' = ""
  /\ currentStep' = "parsing"
  /\ runs' = Append(runs, [type |-> type, textToProcess |-> data, at |-> "parse",
                           body |-> [text |-> data], net |-> Pending, service |-> NoService])

\* processInput up to its first await: the recognize request for a canvas
\* submit, the parse request for a text submit
processInput(data, type) ==
  /\ isProcessing' = TRUE
  /\ error' = ""
  /\ currentStep' = IF type = "canvas" THEN "ocr" ELSE "parsing"
  /\ runs' = Append(runs, [type |-> type, textToProcess |-> data,
                           at |-> IF type = "canvas" THEN "ocr" ELSE "parse",
                           body |-> IF type = "canvas" THEN [imageData |-> data]
                                    ELSE [text |-> data],
                           net |-> Pending, service |-> NoService])

\* handleSubmit without the check for blank input
handleSubmit_NoBlankCheck ==
  /\ SubmitEnabled
  /\ Len(runs) < MaxInFlight
  /\ processInput(inputData, inputType)
  /\ IF variant = "composed" THEN Unmounted ELSE UNCHANGED local
  /\ Did("handleSubmit")
  /\ UNCHANGED <<env, review, dispatch, inputType, inputData, parsedData>>

\* handleSubmit, by the submit button
handleSubmit ==
  /\ SubmitEnabled
  /\ IF IsBlank(inputData)
       THEN /\ error' = "Please provide some input before processing"
            /\ UNCHANGED <<currentStep, isProcessing, runs, local>>
       ELSE /\ Len(runs) < MaxInFlight
            /\ processInput(inputData, inputType)
            /\ IF variant = "composed" THEN Unmounted ELSE UNCHANGED local
  /\ Did("handleSubmit")
  /\ UNCHANGED <<env, review, dispatch, inputType, inputData, parsedData>>

\* a catch block that shows the input step again instead of 'error'
Failed_BackToInput(i, message) ==
  /\ error' = message
  /\ currentStep' = "input"
  /\ isProcessing' = FALSE
  /\ runs' = RemoveAt(runs, i)
  /\ UNCHANGED parsedData

\* a catch block without the finally block's setIsProcessing(false)
Failed_NoFinally(i, message) ==
  /\ error' = message
  /\ currentStep' = "error"
  /\ runs' = RemoveAt(runs, i)
  /\ UNCHANGED <<parsedData, isProcessing>>

\* the catch and finally blocks of processInput
Failed(i, message) ==
  /\ error' = message
  /\ currentStep' = "error"
  /\ isProcessing' = FALSE
  /\ runs' = RemoveAt(runs, i)
  /\ UNCHANGED parsedData

\* the recognize request of run i is answered: by the recognize route, given
\* what the recognition service does (inline); by /api/ocr (composed)
recognizeAnswers(i) ==
  /\ i \in 1..Len(runs) /\ runs[i].at = "ocr" /\ runs[i].net = Pending
  /\ IF variant = "inline"
       THEN \E o \in IF RecognizeCallsMyScript(runs[i].body, myscriptKeys)
                         THEN MyScriptOutcomes ELSE {NoService} :
              runs' = [runs EXCEPT ![i].net = RecognizePOST(runs[i].body, myscriptKeys, o),
                                   ![i].service = o]
       ELSE \E answer \in OcrEndpointAnswers :
              runs' = [runs EXCEPT ![i].net = answer]
  /\ Did("recognizeAnswers")
  /\ UNCHANGED <<env, review, dispatch, inputType, inputData, currentStep, error, parsedData, isProcessing, local>>

\* the parse request of run i is answered: by the parse route, given what the
\* language-model service does (inline); by /api/parse (composed)
parseAnswers(i) ==
  /\ i \in 1..Len(runs) /\ runs[i].at = "parse" /\ runs[i].net = Pending
  /\ IF variant = "inline"
       THEN \E o \in IF ParseCallsOpenAI(runs[i].body, apiKey)
                         THEN LLMOutcomes ELSE {NoService} :
              runs' = [runs EXCEPT ![i].net = ParsePOST(runs[i].body, apiKey, o),
                                   ![i].service = o]
       ELSE \E answer \in ParseEndpointAnswers :
              runs' = [runs EXCEPT ![i].net = answer]
  /\ Did("parseAnswers")
  /\ UNCHANGED <<env, review, dispatch, inputType, inputData, currentStep, error, parsedData, isProcessing, local>>

\* the pending fetch of run i rejects (the request or its answer is lost)
fetchRejects(i) ==
  /\ i \in 1..Len(runs) /\ runs[i].net = Pending
  /\ runs' = [runs EXCEPT ![i].net = FetchRejected]
  /\ Did("fetchRejects")
  /\ UNCHANGED <<env, review, dispatch, inputType, inputData, currentStep, error, parsedData, isProcessing, local>>

\* processInput returning after the recognition, leaving the extraction to a
\* second submit
processInputAfterOcr_Stops(i) ==
  /\ i \in 1..Len(runs) /\ runs[i].at = "ocr" /\ runs[i].net # Pending
  /\ LET ocrResponse == runs[i].net
     IN IF ocrResponse = FetchRejected
          THEN Failed(i, FetchErrorMessage)
        ELSE IF ~ocrResponse.ok
          THEN Failed(i, "OCR processing failed")
        ELSE IF IsBlank(ocrResponse.body.text)
          THEN Failed(i, "No text could be extracted from the handwriting")
        ELSE /\ runs' = RemoveAt(runs, i)
             /\ UNCHANGED <<currentStep, error, isProcessing, parsedData>>
  /\ Did("processInputAfterOcr")
  /\ UNCHANGED <<env, review, dispatch, inputType, inputData, local>>

\* processInput without the check of the recognized text
processInputAfterOcr_NoBlankCheck(i) ==
  /\ i \in 1..Len(runs) /\ runs[i].at = "ocr" /\ runs[i].net # Pending
  /\ LET ocrResponse == runs[i].net
     IN IF ocrResponse = FetchRejected
          THEN Failed(i, FetchErrorMessage)
        ELSE IF ~ocrResponse.ok
          THEN Failed(i, "OCR processing failed")
        ELSE /\ currentStep' = "parsing"
             /\ runs' = [runs EXCEPT ![i] =
                           [type |-> runs[i].type, textToProcess |-> ocrResponse.body.text,
                            at |-> "parse", body |-> [text |-> ocrResponse.body.text],
                            net |-> Pending, service |-> NoService]]
             /\ UNCHANGED <<error, isProcessing, parsedData>>
  /\ Did("processInputAfterOcr")
  /\ UNCHANGED <<env, review, dispatch, inputType, inputData, local>>

\* processInput from the answer of the recognize request to the parse request
processInputAfterOcr(i) ==
  /\ i \in 1..Len(runs) /\ runs[i].at = "ocr" /\ runs[i].net # Pending
  /\ LET ocrResponse == runs[i].net
     IN IF ocrResponse = FetchRejected
          THEN Failed(i, FetchErrorMessage)
        ELSE IF ~ocrResponse.ok
          THEN Failed(i, "OCR processing failed")
        ELSE IF IsBlank(ocrResponse.body.text)
          THEN Failed(i, "No text could be extracted from the handwriting")
        ELSE /\ currentStep' = "parsing"
             /\ runs' = [runs EXCEPT ![i] =
                           [type |-> runs[i].type, textToProcess |-> ocrResponse.body.text,
                            at |-> "parse", body |-> [text |-> ocrResponse.body.text],
                            net |-> Pending, service |-> NoService]]
             /\ UNCHANGED <<error, isProcessing, parsedData>>
  /\ Did("processInputAfterOcr")
  /\ UNCHANGED <<env, review, dispatch, inputType, inputData, local>>

\* processInput taking every ok answer as a success
processInputAfterParse_IgnoreSuccess(i) ==
  /\ i \in 1..Len(runs) /\ runs[i].at = "parse" /\ runs[i].net # Pending
  /\ LET parseResponse == runs[i].net
     IN IF parseResponse = FetchRejected
          THEN Failed(i, FetchErrorMessage)
        ELSE IF ~parseResponse.ok
          THEN Failed(i, "Text parsing failed")
        ELSE /\ parsedData' = IF Has(parseResponse.body, "data") THEN parseResponse.body.data
                              ELSE NoRecord
             /\ currentStep' = "preview"
             /\ isProcessing' = FALSE
             /\ runs' = RemoveAt(runs, i)
             /\ UNCHANGED error
  /\ Did("processInputAfterParse")
  /\ UNCHANGED <<env, review, dispatch, inputType, inputData, local>>

\* processInput from the answer of the parse request to its end
processInputAfterParse(i) ==
  /\ i \in 1..Len(runs) /\ runs[i].at = "parse" /\ runs[i].net # Pending
  /\ LET parseResponse == runs[i].net
     IN IF parseResponse = FetchRejected
          THEN Failed(i, FetchErrorMessage)
        ELSE IF ~parseResponse.ok
          THEN Failed(i, "Text parsing failed")
        ELSE IF ~(Has(parseResponse.body, "success") /\ parseResponse.body.success)
          THEN Failed(i, IF Has(parseResponse.body, "error") THEN parseResponse.body.error
                         ELSE "Failed to parse booking data")
        ELSE /\ parsedData' = parseResponse.body.data
             /\ currentStep' = "preview"
             /\ isProcessing' = FALSE
             /\ runs' = RemoveAt(runs, i)
             /\ UNCHANGED error
  /\ Did("processInputAfterParse")
  /\ UNCHANGED <<env, review, dispatch, inputType, inputData, local>>

\* resetForm by a Start Over button that is rendered in every step
resetForm_AnyStep ==
  /\ inputData' = <<>>
  /\ parsedData' = NoRecord
  /\ currentStep' = "input"
  /\ error' = ""
  /\ isProcessing' = FALSE
  /\ Did("resetForm")
  /\ UNCHANGED <<env, review, dispatch, inputType, runs, local>>

\* a resetForm that forgets setCurrentStep('input')
resetForm_KeepsStep ==
  /\ PreviewShown \/ currentStep = "error"
  /\ inputData' = <<>>
  /\ parsedData' = NoRecord
  /\ error' = ""
  /\ isProcessing' = FALSE
  /\ Did("resetForm")
  /\ UNCHANGED <<env, review, dispatch, inputType, currentStep, runs, local>>

\* resetForm, by Start Over (shown with the preview and in 'error')
resetForm ==
  /\ PreviewShown \/ currentStep = "error"
  /\ inputData' = <<>>
  /\ parsedData' = NoRecord
  /\ currentStep' = "input"
  /\ error' = ""
  /\ isProcessing' = FALSE
  /\ Did("resetForm")
  /\ UNCHANGED <<env, review, dispatch, inputType, runs, local>>

\* Edit Input: setCurrentStep('input')
onEdit ==
  /\ PreviewShown
  /\ currentStep' = "input"
  /\ Did("onEdit")
  /\ UNCHANGED <<env, review, dispatch, inputType, inputData, error, parsedData, isProcessing, runs, local>>

\* new URLSearchParams({customer_name: parsedData.customer_name || '', ...})
URLSearchParams(record) ==
  [customer_name |-> OrEmpty(record, "customer_name"), phone |-> OrEmpty(record, "phone"),
   vehicle |-> OrEmpty(record, "vehicle"), year |-> OrEmpty(record, "year"),
   registration |-> OrEmpty(record, "registration"), issue |-> OrEmpty(record, "issue"),
   from_jotter |-> <<"true">>]

\* what a dispatch can do: router.push and the callback return, router.push
\* throws, or the callback throws
DispatchOutcomes == {"ok", "pushThrows", "callbackThrows"}

\* a Create Booking button rendered in every step once there is a record
BookingEnabled_AnyStep == parsedData # NoRecord

\* the Create Booking button is rendered with the preview and never disabled
BookingEnabled == PreviewShown

\* isEstimateDisabled={true}; <button ... disabled>
isEstimateDisabled == TRUE

\* the Create Estimate button is rendered with the preview, disabled
EstimateEnabled == PreviewShown /\ ~isEstimateDisabled

\* handleCreateBooking whose catch block shows the 'error' step
handleCreateBooking_FailToError ==
  /\ BookingEnabled
  /\ \E outcome \in DispatchOutcomes :
       /\ router' = IF outcome = "pushThrows" THEN router ELSE URLSearchParams(parsedData)
       /\ forwarded' = IF outcome = "pushThrows" THEN forwarded ELSE parsedData
       /\ error' = IF outcome = "ok" THEN error
                   ELSE "Failed to create booking. Please try again."
       /\ currentStep' = IF outcome = "ok" THEN currentStep ELSE "error"
       /\ last' = [op |-> "handleCreateBooking", from |-> currentStep, outcome |-> outcome]
  /\ UNCHANGED <<env, review, inputType, inputData, parsedData, isProcessing, runs, local>>

\* handleCreateBooking, by the Create Booking button
handleCreateBooking ==
  /\ BookingEnabled
  /\ \E outcome \in DispatchOutcomes :
       /\ router' = IF outcome = "pushThrows" THEN router ELSE URLSearchParams(parsedData)
       /\ forwarded' = IF outcome = "pushThrows" THEN forwarded ELSE parsedData
       /\ error' = IF outcome = "ok" THEN error
                   ELSE "Failed to create booking. Please try again."
       /\ last' = [op |-> "handleCreateBooking", from |-> currentStep, outcome |-> outcome]
  /\ UNCHANGED <<env, review, inputType, inputData, currentStep, parsedData, isProcessing,
                 runs, local>>

Next ==
  \/ \E s \in Strings : handleChange(s)
  \/ fillExample
  \/ clearText
  \/ \E t \in {"text", "canvas"} : setInputType(t)
  \/ drawStroke
  \/ clearCanvas
  \/ undoLast
  \/ handleSubmit
  \/ \E i \in 1..MaxInFlight : recognizeAnswers(i)
  \/ \E i \in 1..MaxInFlight : parseAnswers(i)
  \/ \E i \in 1..MaxInFlight : fetchRejects(i)
  \/ \E i \in 1..MaxInFlight : processInputAfterOcr(i)
  \/ \E i \in 1..MaxInFlight : processInputAfterParse(i)
  \/ resetForm
  \/ onEdit
  \/ handleCreateBooking

Spec == Init /\ [][Next]_vars

\* the network answers every request that stays pending, and a continuation
\* runs once its promise has settled
FairSpec ==
  /\ Spec
  /\ WF_vars(\E i \in 1..MaxInFlight : recognizeAnswers(i))
  /\ WF_vars(\E i \in 1..MaxInFlight : parseAnswers(i))
  /\ WF_vars(\E i \in 1..MaxInFlight : processInputAfterOcr(i))
  /\ WF_vars(\E i \in 1..MaxInFlight : processInputAfterParse(i))

\* ------------------------------------------------------------- preview page
\* JotterPreview on its demo page.  "perField": JotterPreview.tsx, where each
\* EditableField keeps its own editing state.  "perForm": the JotterPreview of
\* TextInput.tsx, which keeps editingField and tempValues and has the Create
\* Booking / Create Estimate buttons.

\* the fields whose EditableField is operated: a required one and an optional
\* one (the six instances run the same code)
EditedFields == {"customer_name", "vehicle"}

\* {...obj, [k]: v}
SetField(obj, k, v) == [x \in DOMAIN obj \cup {k} |-> IF x = k THEN v ELSE obj[x]]

\* fieldConfidence?.field of a field without a confidence: undefined
NoConfidence == -1

Confidence(obj, k) == IF Has(obj, k) THEN obj[k] ELSE NoConfidence

\* the presets of the demo pages
completeData ==
  [customer_name |-> <<"John Smith">>, phone |-> <<"07712345678">>, vehicle |-> <<"Ford Focus">>,
   year |-> <<"2018">>, registration |-> <<"YA19 ABC">>,
   issue |-> <<"Engine warning light comes on intermittently">>, confidence_score |-> 85]

samplePresets ==
  { completeData,
    [customer_name |-> <<"Jane Doe">>, phone |-> <<"07798765432">>,
     issue |-> <<"Strange noise from engine">>, confidence_score |-> 62],
    [customer_name |-> <<"Bob Wilson">>, phone |-> <<>>, issue |-> <<"Car won't start">>,
     confidence_score |-> 45],
    [confidence_score |-> 10] }

incompleteData ==
  [customer_name |-> <<"Jane Doe">>, phone |-> <<"07798765432">>, vehicle |-> <<>>,
   year |-> <<>>, registration |-> <<"BD21 XYZ">>, issue |-> <<"Brake issues">>]

sampleConfidences ==
  [customer_name |-> 95, phone |-> 90, vehicle |-> 88, year |-> 92, registration |-> 85,
   issue |-> 75]

lowConfidences ==
  [customer_name |-> 60, phone |-> 45, vehicle |-> 70, year |-> 80, registration |-> 55,
   issue |-> 65]

\* the records a preview can be given: the presets, and what the parse route
\* delivers (nullable fields, a name of white space, a confidence of 0)
ReviewRecords ==
  samplePresets
  \cup {incompleteData, EmptyObject, getMockResponse(exampleText)}
  \cup {[customer_name |-> n, phone |-> <<"a">>, vehicle |-> Null, year |-> Null,
         registration |-> Null, issue |-> <<"a">>, notes |-> Null, confidence_score |-> c] :
          n \in {<<" ">>, <<" ", "a">>}, c \in {0, 59}}

\* the confidences a preview can be given (FieldConfidence: each key optional)
FieldConfidences ==
  {sampleConfidences, lowConfidences, EmptyObject}
  \cup {[customer_name |-> c, vehicle |-> 100 - c] : c \in {0, 59, 60, 79, 80, 100}}

\* useState(false), useState(value || ''), useState(false) of each EditableField
EditableFieldInit(record) ==
  [f \in EditedFields |->
     [isEditing |-> FALSE, editValue |-> OrEmpty(record, f), hasChanges |-> FALSE]]

\* the state of a preview demo page after construction
ReviewInit ==
  /\ variant \in {"perField", "perForm"}
  /\ apiKey = FALSE
  /\ myscriptKeys = FALSE
  /\ SmartJotterInit
  /\ \/ currentData \in ReviewRecords /\ fieldConfidence = sampleConfidences
     \/ currentData = completeData /\ fieldConfidence \in FieldConfidences
  /\ localData = IF variant = "perField" THEN currentData ELSE NoRecord
  /\ editors = IF variant = "perField" THEN EditableFieldInit(currentData) ELSE <<>>
  /\ editingField = NotEditing
  /\ tempValues = EmptyObject
  /\ isLoading = FALSE

jotter == <<inputType, inputData, currentStep, error, parsedData, isProcessing, runs>>

\* hasRequiredFields of JotterPreview (perForm)
hasRequiredFields(record) ==
  ~Falsy(record, "customer_name") /\ ~Falsy(record, "phone") /\ ~Falsy(record, "issue")

\* hasVehicleInfo of JotterPreview (perForm)
hasVehicleInfo(record) == ~Falsy(record, "vehicle") \/ ~Falsy(record, "registration")

\* -- perForm: JotterPreview keeps editingField and tempValues
\* a click on the displayed value of a field: startEditing(field, value)
startEditing(field) ==
  /\ variant = "perForm" /\ editingField # field
  /\ editingField' = field
  /\ tempValues' = SetField(tempValues, field, OrEmpty(currentData, field))
  /\ Did("startEditing")
  /\ UNCHANGED <<env, jotter, local, dispatch, currentData, localData, fieldConfidence,
                 editors, isLoading>>

\* typing in the input of the field being edited
onTempValueChange(field, value) ==
  /\ variant = "perForm" /\ editingField = field
  /\ tempValues' = SetField(tempValues, field, value)
  /\ Did("onTempValueChange")
  /\ UNCHANGED <<env, jotter, local, dispatch, currentData, localData, fieldConfidence,
                 editors, editingField, isLoading>>

\* a saveEdit that stores every temporary value: {...data, ...tempValues}
saveEdit_AllTempValues(field) ==
  /\ variant = "perForm" /\ editingField = field
  /\ currentData' = [k \in DOMAIN currentData \cup DOMAIN tempValues |->
                       IF Has(tempValues, k) THEN tempValues[k] ELSE currentData[k]]
  /\ editingField' = NotEditing
  /\ tempValues' = EmptyObject
  /\ Did("saveEdit")
  /\ UNCHANGED <<env, jotter, local, dispatch, localData, fieldConfidence, editors, isLoading>>

\* saveEdit, by the Save button of the field being edited; the page's
\* handleDataChange stores the record
saveEdit(field) ==
  /\ variant = "perForm" /\ editingField = field
  /\ currentData' = SetField(currentData, field, OrEmpty(tempValues, field))
  /\ editingField' = NotEditing
  /\ tempValues' = EmptyObject
  /\ Did("saveEdit")
  /\ UNCHANGED <<env, jotter, local, dispatch, localData, fieldConfidence, editors, isLoading>>

\* a cancelEdit that stores what was typed before it closes the editor
cancelEdit_Saves ==
  /\ variant = "perForm" /\ editingField # NotEditing
  /\ currentData' = SetField(currentData, editingField, OrEmpty(tempValues, editingField))
  /\ editingField' = NotEditing
  /\ tempValues' = EmptyObject
  /\ Did("cancelEdit")
  /\ UNCHANGED <<env, jotter, local, dispatch, localData, fieldConfidence, editors, isLoading>>

\* cancelEdit, by the Cancel button of the field being edited
cancelEdit ==
  /\ variant = "perForm" /\ editingField # NotEditing
  /\ editingField' = NotEditing
  /\ tempValues' = EmptyObject
  /\ Did("cancelEdit")
  /\ UNCHANGED <<env, jotter, local, dispatch, currentData, localData, fieldConfidence,
                 editors, isLoading>>

\* the Create Booking / Create Estimate buttons are not disabled
CreateEnabled == variant = "perForm" /\ hasRequiredFields(currentData) /\ ~isLoading

\* Create Booking: onCreateBooking(data), the page's handleCreateBooking
onCreateBooking ==
  /\ CreateEnabled
  /\ isLoading' = TRUE
  /\ Did("onCreateBooking")
  /\ UNCHANGED <<env, jotter, local, dispatch, currentData, localData, fieldConfidence,
                 editors, editingField, tempValues>>

\* Create Estimate: onCreateEstimate(data), the page's handleCreateEstimate
onCreateEstimate ==
  /\ CreateEnabled
  /\ isLoading' = TRUE
  /\ Did("onCreateEstimate")
  /\ UNCHANGED <<env, jotter, local, dispatch, currentData, localData, fieldConfidence,
                 editors, editingField, tempValues>>

\* the setTimeout callback of the page's handlers: setIsLoading(false)
loadingDone ==
  /\ variant = "perForm" /\ isLoading
  /\ isLoading' = FALSE
  /\ Did("loadingDone")
  /\ UNCHANGED <<env, jotter, local, dispatch, currentData, localData, fieldConfidence,
                 editors, editingField, tempValues>>

\* -- perField: each EditableField keeps isEditing, editValue and hasChanges
\* the edit button of a field: setIsEditing(true)
setIsEditing(field) ==
  /\ variant = "perField" /\ ~editors[field].isEditing
  /\ editors' = [editors EXCEPT ![field].isEditing = TRUE]
  /\ Did("setIsEditing")
  /\ UNCHANGED <<env, jotter, local, dispatch, currentData, localData, fieldConfidence,
                 editingField, tempValues, isLoading>>

\* EditableField.handleChange: typing in the input of a field being edited
EditableField_handleChange(field, newValue) ==
  /\ variant = "perField" /\ editors[field].isEditing
  /\ editors' = [editors EXCEPT ![field].editValue = newValue,
                                ![field].hasChanges = Trim(newValue) # OrEmpty(localData, field)]
  /\ Did("EditableField.handleChange")
  /\ UNCHANGED <<env, jotter, local, dispatch, currentData, localData, fieldConfidence,
                 editingField, tempValues, isLoading>>

\* JotterPreview.handleFieldUpdate(field)(newValue), with the page's
\* handleDataChange and the effect that copies parsedData to localData
handleFieldUpdate(field, newValue) ==
  /\ localData' = SetField(localData, field, newValue)
  /\ currentData' = SetField(localData, field, newValue)

\* EditableField.handleSave, by the Save button or the Enter key; when the
\* value changes, the effect on [value] sets editValue to it
handleSave(field) ==
  /\ variant = "perField" /\ editors[field].isEditing
  /\ LET value == OrEmpty(localData, field)
         saved == Trim(editors[field].editValue)
     IN IF saved # value
          THEN /\ handleFieldUpdate(field, saved)
               /\ editors' = [editors EXCEPT ![field] =
                                [isEditing |-> FALSE, editValue |-> saved, hasChanges |-> FALSE]]
          ELSE /\ editors' = [editors EXCEPT ![field].isEditing = FALSE,
                                             ![field].hasChanges = FALSE]
               /\ UNCHANGED <<currentData, localData>>
  /\ Did("handleSave")
  /\ UNCHANGED <<env, jotter, local, dispatch, fieldConfidence, editingField, tempValues,
                 isLoading>>

\* EditableField.handleCancel, by the Cancel button or the Escape key
handleCancel(field) ==
  /\ variant = "perField" /\ editors[field].isEditing
  /\ editors' = [editors EXCEPT ![field] =
                   [isEditing |-> FALSE, editValue |-> OrEmpty(localData, field),
                    hasChanges |-> FALSE]]
  /\ Did("handleCancel")
  /\ UNCHANGED <<env, jotter, local, dispatch, currentData, localData, fieldConfidence,
                 editingField, tempValues, isLoading>>

ReviewNext ==
  \/ \E f \in EditedFields : startEditing(f)
  \/ \E f \in EditedFields : \E s \in Strings : onTempValueChange(f, s)
  \/ \E f \in EditedFields : saveEdit(f)
  \/ cancelEdit
  \/ onCreateBooking
  \/ onCreateEstimate
  \/ loadingDone
  \/ \E f \in EditedFields : setIsEditing(f)
  \/ \E f \in EditedFields : \E s \in Strings : EditableField_handleChange(f, s)
  \/ \E f \in EditedFields : handleSave(f)
  \/ \E f \in EditedFields : handleCancel(f)

ReviewSpec == ReviewInit /\ [][ReviewNext]_vars

\* -- confidence display (confidences are percentages; NoConfidence: undefined)
\* !conf
NoConf(conf) == conf = NoConfidence \/ conf = 0

\* getConfidenceColor of EditableField and of JotterPreview
getConfidenceColor(conf) ==
  IF NoConf(conf) THEN "text-gray-400"
  ELSE IF conf >= 80 THEN "text-green-500"
  ELSE IF conf >= 60 THEN "text-yellow-500"
  ELSE "text-red-500"

\* getConfidenceIcon of EditableField (perField)
getConfidenceIcon(conf) ==
  IF NoConf(conf) THEN "null"
  ELSE IF conf >= 80 THEN "CheckCircle"
  ELSE "AlertTriangle"

\* getConfidenceText of JotterPreview (perForm); the label of a field shows
\* the same percentage
getConfidenceText(conf) ==
  IF NoConf(conf) THEN "No confidence data" ELSE conf

\* the confidence shown with the label of a field.  perField:
\* {confidence !== undefined && <div colour> icon, percentage}; perForm:
\* {confidence && <span colour> percentage}, where a confidence of 0 is
\* rendered as the bare text 0
FieldBadge(conf) ==
  IF conf = NoConfidence
    THEN [rendered |-> FALSE]
  ELSE IF variant = "perForm" /\ conf = 0
    THEN [rendered |-> FALSE, text |-> 0]
  ELSE [rendered |-> TRUE, color |-> getConfidenceColor(conf),
        icon |-> IF variant = "perField" THEN getConfidenceIcon(conf) ELSE "null",
        text |-> conf]

\* the confidence score badge of ParsedDataPreview:
\* {data.confidence_score && <div colour> percentage}
ScoreBadge(record) ==
  IF ~Has(record, "confidence_score")
    THEN [rendered |-> FALSE]
  ELSE IF record.confidence_score = 0
    THEN [rendered |-> FALSE, text |-> 0]
  ELSE [rendered |-> TRUE,
        color |-> IF record.confidence_score >= 80 THEN "bg-green-100 text-green-800"
                  ELSE IF record.confidence_score >= 60 THEN "bg-yellow-100 text-yellow-800"
                  ELSE "bg-red-100 text-red-800",
        text |-> record.confidence_score]

\* ------------------------------------------------------ the routes' clients
\* The two routes are entry points of their own: any HTTP client can post any
\* JSON body to them.  parseText of the client library is the other entry
\* point of extraction.  A request in flight is a run whose type is "http" (a
\* bare client) or "parseText" (the client library).

\* a present stroke array
SomeStrokes == <<"stroke">>

ParseBodies ==
  {[text |-> t] : t \in Strings \cup {Null, NotAString}} \cup {EmptyObject}

RecognizeBodies ==
  {[inputType |-> "strokes", strokeData |-> SomeStrokes],
   [strokeData |-> SomeStrokes],
   [inputType |-> "image"],
   EmptyObject}
  \cup {[inputType |-> t, imageData |-> d] : t \in {"image", "strokes"},
                                            d \in {<<>>, toDataURL(0), toDataURL(1)}}
  \cup {[imageData |-> toDataURL(1), strokeData |-> SomeStrokes]}

RouteInit ==
  /\ variant = "inline"
  /\ apiKey \in BOOLEAN
  /\ myscriptKeys \in BOOLEAN
  /\ SmartJotterInit
  /\ NoPreview

\* a client posts body to the recognize route ("ocr") or the parse route
request(at, body) ==
  /\ Len(runs) < MaxInFlight
  /\ runs' = Append(runs, [type |-> "http", at |-> at, body |-> body,
                           net |-> Pending, service |-> NoService])
  /\ Did("request")
  /\ UNCHANGED <<env, review, dispatch, inputType, inputData, currentStep, error,
                 parsedData, isProcessing, local>>

\* the client has its answer
respond(i) ==
  /\ i \in 1..Len(runs) /\ runs[i].type = "http" /\ runs[i].net # Pending
  /\ runs' = RemoveAt(runs, i)
  /\ Did("respond")
  /\ UNCHANGED <<env, review, dispatch, inputType, inputData, currentStep, error,
                 parsedData, isProcessing, local>>

\* new ApiError(message, status)
ApiError(message, status) == [threw |-> TRUE, message |-> message, status |-> status]

\* parseText up to its await: blank text throws before any request, other text
\* is posted trimmed
parseText(t) ==
  /\ Len(runs) < MaxInFlight
  /\ IF IsBlank(t)
       THEN /\ runs' = runs
            /\ last' = [op |-> "parseText", from |-> currentStep,
                        result |-> ApiError("Text cannot be empty", 400)]
       ELSE /\ runs' = Append(runs, [type |-> "parseText", at |-> "parse",
                                     body |-> [text |-> Trim(t)],
                                     net |-> Pending, service |-> NoService])
            /\ last' = [op |-> "parseText", from |-> currentStep, result |-> Pending]
  /\ UNCHANGED <<env, review, dispatch, inputType, inputData, currentStep, error,
                 parsedData, isProcessing, local>>

\* parseText after its await: the data of an ok response is returned, anything
\* else is thrown as an ApiError
parseTextSettles(i) ==
  /\ i \in 1..Len(runs) /\ runs[i].type = "parseText" /\ runs[i].net # Pending
  /\ LET response == runs[i].net
     IN last' = [op |-> "parseTextSettles", from |-> currentStep,
                 result |->
                   IF response = FetchRejected
                     THEN ApiError("Network error - please check your connection", 0)
                   ELSE IF ~response.ok
                     THEN ApiError(IF Has(response.body, "error") /\ response.body.error # ""
                                     THEN response.body.error ELSE "Failed to parse text",
                                   response.status)
                   ELSE [threw |-> FALSE, data |-> response.body]]
  /\ runs' = RemoveAt(runs, i)
  /\ UNCHANGED <<env, review, dispatch, inputType, inputData, currentStep, error,
                 parsedData, isProcessing, local>>

RouteNext ==
  \/ \E body \in RecognizeBodies : request("ocr", body)
  \/ \E body \in ParseBodies : request("parse", body)
  \/ \E t \in Strings : parseText(t)
  \/ \E i \in 1..MaxInFlight : recognizeAnswers(i)
  \/ \E i \in 1..MaxInFlight : parseAnswers(i)
  \/ \E i \in 1..MaxInFlight : fetchRejects(i)
  \/ \E i \in 1..MaxInFlight : respond(i)
  \/ \E i \in 1..MaxInFlight : parseTextSettles(i)

RouteSpec == RouteInit /\ [][RouteNext]_vars

\* =================================================================== claims
Answered(i) == runs[i].net.kind = "http"

ParseSucceeded(response) ==
  /\ response.kind = "http" /\ response.ok
  /\ Has(response.body, "success") /\ response.body.success

\* ------------------------------------------------------------------------
\* C1: 'preview' is entered only from 'parsing', with the parse answer of the
\* run there; for a canvas run 'parsing' is entered only from 'ocr', with the
\* recognize answer there; a parse request of a canvas run is issued only by
\* the run whose recognize request was answered.
C1_NoSkip ==
  [][ /\ (currentStep' = "preview" /\ currentStep # "preview") =>
           /\ currentStep = "parsing"
           /\ \E i \in 1..Len(runs) : runs[i].at = "parse" /\ Answered(i)
      /\ (currentStep' = "parsing" /\ currentStep # "parsing") =>
           \/ currentStep \in {"input", "error"} /\ inputType = "text"
           \/ /\ currentStep = "ocr"
              /\ \E i \in 1..Len(runs) :
                   runs[i].at = "ocr" /\ runs[i].type = "canvas" /\ Answered(i)
      /\ \A i \in 1..Len(runs') :
           (runs'[i].at = "parse" /\ runs'[i].type = "canvas" /\ runs'[i].net = Pending) =>
             /\ i <= Len(runs)
             /\ \/ runs[i] = runs'[i]
                \/ runs[i].at = "ocr" /\ Answered(i) /\ runs[i].net.ok
    ]_vars

C1_Witness ==
  /\ currentStep = "preview" /\ inputType = "canvas"
  /\ last = [op |-> "processInputAfterParse", from |-> "parsing"]

\* ------------------------------------------------------------------------
\* C2 as stated: the step changes only forward, or from 'error' or 'preview'
\* back to 'input'.
ForwardSteps ==
  {<<"input", "ocr">>, <<"input", "parsing">>, <<"ocr", "parsing">>, <<"ocr", "error">>,
   <<"parsing", "preview">>, <<"parsing", "error">>}

C3_SingleInFlight ==
  /\ Cardinality({i \in 1..Len(runs) : runs[i].at = "ocr"}) <= 1
  /\ Cardinality({i \in 1..Len(runs) : runs[i].at = "parse"}) <= 1
  /\ Len(runs) <= 1
  /\ runs # <<>> => (isProcessing /\ ~SubmitEnabled)

C3_Witness ==
  /\ Len(runs) = 1 /\ runs[1].net = Pending
  /\ ~IsBlank(inputData)

\* ------------------------------------------------------------------------
\* C4: without OPENAI_API_KEY the parse route answers a text run with
\* success, mock and the local extractor's record of the text, and the run
\* reaches 'preview' with that record, unless its fetch was rejected.
C4_TextRunReachesPreview ==
  /\ [](variant = "inline" /\ ~apiKey =>
          /\ \A i \in 1..Len(runs) :
               (runs[i].type = "text" /\ runs[i].at = "parse" /\ Answered(i)) =>
                 /\ ParseSucceeded(runs[i].net)
                 /\ runs[i].net.body.mock
                 /\ runs[i].net.body.data = getMockResponse(runs[i].body.text)
          /\ (currentStep = "error" /\ inputType = "text"
              /\ last.op = "processInputAfterParse") => error = FetchErrorMessage)
  /\ (variant = "inline" /\ ~apiKey /\ runs # <<>> /\ runs[1].type = "text")
       ~> \/ currentStep = "preview" /\ parsedData = getMockResponse(inputData)
          \/ currentStep = "error" /\ error = FetchErrorMessage

C4_Witness ==
  /\ variant = "inline" /\ ~apiKey /\ inputType = "text"
  /\ currentStep = "preview" /\ parsedData = getMockResponse(inputData)
  /\ last.op = "processInputAfterParse"

RouteServed(i, kinds) ==
  /\ variant = "inline" /\ apiKey
  /\ runs[i].at = "parse" /\ Answered(i)
  /\ runs[i].service.kind \in kinds

\* a JSON reply with a key missing or not a string
ReplyFailsSchema(o) ==
  /\ o.kind = "json"
  /\ \E k \in SchemaKeys : ~Has(o.value, k) \/ o.value[k] = NotAString

FallbackAnswer(i) ==
  /\ ParseSucceeded(runs[i].net)
  /\ Has(runs[i].net.body, "mock") /\ runs[i].net.body.mock
  /\ runs[i].net.body.data = getMockResponse(runs[i].body.text)

C7_FallbackSucceeds ==
  \A i \in 1..Len(runs) :
    RouteServed(i, {"throws", "empty", "notjson"}) => FallbackAnswer(i)

\* ------------------------------------------------------------------------
\* C8: every parse request carries text that is not blank, and a recognize
\* answer whose text is blank ends the run in 'error' without a parse request.
C8_NoBlankParse ==
  /\ [](\A i \in 1..Len(runs) : runs[i].at = "parse" => ~IsBlank(runs[i].body.text))
  /\ [][(\E i \in 1..Len(runs) :
           /\ runs[i].at = "ocr" /\ Answered(i) /\ runs[i].net.ok
           /\ IsBlank(runs[i].net.body.text))
        => (currentStep' = "error" /\ runs' = <<>> /\ ~isProcessing')]_vars

C8_Witness ==
  /\ currentStep = "error" /\ runs = <<>>
  /\ error = "No text could be extracted from the handwriting"
  /\ last = [op |-> "processInputAfterOcr", from |-> "ocr"]

\* ------------------------------------------------------------------------
\* C9: Start Over from 'error' leaves 'input' with inputData, the record and
\* the error empty, and the capture surface empty as well.
C9_ResetDiscards ==
  [][(currentStep = "error" /\ last'.op = "resetForm") =>
       /\ currentStep' = "input"
       /\ inputData' = <<>> /\ parsedData' = NoRecord /\ error' = ""
       /\ variant = "composed" => (text' = <<>> /\ strokes' = <<>> /\ ~hasInput')
    ]_vars

\* ------------------------------------------------------------------------
\* C10: handleSubmit with blank inputData issues no request, leaves the step
\* at 'input', isProcessing false and the record as it was, and sets the
\* notice.
C10_BlankSubmit ==
  [][(IsBlank(inputData) /\ last'.op = "handleSubmit") =>
       /\ runs' = runs /\ runs = <<>>
       /\ currentStep = "input" /\ currentStep' = "input"
       /\ ~isProcessing /\ ~isProcessing'
       /\ parsedData' = parsedData
       /\ error' = "Please provide some input before processing"
    ]_vars

C10_Witness ==
  /\ last = [op |-> "handleSubmit", from |-> "input"]
  /\ IsBlank(inputData) /\ currentStep = "input" /\ runs = <<>>
  /\ error = "Please provide some input before processing"

\* ------------------------------------------------------------------------
\* canvas.toDataURL() gives a data URL; typed text is what the keyboard gives
IsDataURL(s) == Len(s) > 0 /\ s[1] = "data:image/png;base64,"

\* C11: switching the input kind clears the data of the other kind: the data
\* the orchestrator holds is of the selected kind (typed text in text mode, a
\* drawing in canvas mode), at most one of the typed text and the drawing is
\* populated, a recognize request carries a drawing and never typed text,
\* and the parse request of a text run never carries a drawing.
C11_SwitchClears ==
  /\ inputData # <<>> => (IsDataURL(inputData) <=> inputType = "canvas")
  /\ ~(text # <<>> /\ strokes # <<>>)
  /\ \A i \in 1..Len(runs) :
       /\ runs[i].at = "ocr" => IsDataURL(runs[i].body.imageData)
       /\ runs[i].type = "text" => ~IsDataURL(runs[i].body.text)

\* ------------------------------------------------------------------------
\* the record without a key
Without(obj, k) == [x \in DOMAIN obj \ {k} |-> obj[x]]

\* a field that is present and not empty after trimming
Filled(obj, k) == ~Falsy(obj, k) /\ ~IsBlank(obj[k])

\* C12: the record the preview holds is actionable iff customer name, phone
\* and issue are each non-empty after trimming (a required field of white
\* space only makes it not actionable), and setting or removing vehicle or
\* registration never changes whether it is actionable.
C12_Actionable ==
  variant = "perForm" =>
  /\ hasRequiredFields(currentData) <=>
       \A k \in {"customer_name", "phone", "issue"} : Filled(currentData, k)
  /\ \A k \in {"vehicle", "registration"} :
       /\ hasRequiredFields(Without(currentData, k)) = hasRequiredFields(currentData)
       /\ \A v \in Strings :
            hasRequiredFields(SetField(currentData, k, v)) = hasRequiredFields(currentData)

\* ------------------------------------------------------------------------
\* customer name, phone and issue are each non-empty after trimming
Actionable(record) == \A k \in {"customer_name", "phone", "issue"} : Filled(record, k)

C14_SaveTrims ==
  [][ \A f \in EditedFields :
        /\ (last'.op = "saveEdit" /\ editingField = f) =>
             OrEmpty(currentData', f) = Trim(OrEmpty(tempValues, f))
        /\ (last'.op = "handleSave" /\ editors[f].isEditing /\ ~editors'[f].isEditing) =>
             OrEmpty(currentData', f) = Trim(editors[f].editValue) ]_vars

\* ------------------------------------------------------------------------
\* the band a colour stands for
Band(color) ==
  IF color \in {"text-green-500", "bg-green-100 text-green-800"} THEN "High"
  ELSE IF color \in {"text-yellow-500", "bg-yellow-100 text-yellow-800"} THEN "Medium"
  ELSE IF color \in {"text-red-500", "bg-red-100 text-red-800"} THEN "Low"
  ELSE "NoData"

BandOf(conf) == IF conf >= 80 THEN "High" ELSE IF conf >= 60 THEN "Medium" ELSE "Low"

RecordFields == {"customer_name", "phone", "vehicle", "year", "registration", "issue"}

\* C15: a field's confidence c, 0 included, is rendered in its band (High iff
\* c >= 0.8, Medium iff 0.6 <= c < 0.8, Low iff c < 0.6) and never as 'no
\* data'; a field without a confidence is rendered as 'no data', never as Low
\* or 0%; the same holds for the confidence score of the record.
C15_Bands ==
  /\ \A f \in RecordFields :
       LET conf == Confidence(fieldConfidence, f)
       IN IF conf = NoConfidence
            THEN /\ Band(getConfidenceColor(conf)) = "NoData"
                 /\ ~FieldBadge(conf).rendered
            ELSE /\ Band(getConfidenceColor(conf)) = BandOf(conf)
                 /\ FieldBadge(conf).rendered
                 /\ Band(FieldBadge(conf).color) = BandOf(conf)
  /\ IF Has(currentData, "confidence_score")
       THEN /\ ScoreBadge(currentData).rendered
            /\ Band(ScoreBadge(currentData).color) = BandOf(currentData.confidence_score)
       ELSE ~ScoreBadge(currentData).rendered

BlankParseRequest(i) ==
  /\ runs[i].at = "parse"
  /\ Has(runs[i].body, "text") /\ runs[i].body.text \in Strings
  /\ IsBlank(runs[i].body.text)

\* C17: text that is empty after trimming is rejected with a validation error
\* before any external call and before any local extraction: parseText throws
\* without posting, and the parse route answers a blank text with status 400,
\* without a request to the language-model service and without a record of
\* the mock extractor.
C17_BlankRejected ==
  /\ \A i \in 1..Len(runs) :
       runs[i].type = "parseText" => ~IsBlank(runs[i].body.text)
  /\ \A i \in 1..Len(runs) :
       (BlankParseRequest(i) /\ Answered(i)) =>
         /\ runs[i].net.status = 400
         /\ runs[i].service = NoService
         /\ ~Has(runs[i].net.body, "data")

\* ------------------------------------------------------------------------
\* the input the recognize route hands to generateMockOCRText
MockInput(body) == IF Falsy(body, "imageData") THEN mockInput ELSE body.imageData

\* run i is a request that passes its route's validation, answered by a route
\* that lacks its credentials
AnsweredWithoutKeys(i) ==
  /\ Answered(i)
  /\ \/ /\ runs[i].at = "ocr" /\ ~myscriptKeys
        /\ ~(Falsy(runs[i].body, "imageData") /\ Falsy(runs[i].body, "strokeData"))
     \/ /\ runs[i].at = "parse" /\ ~apiKey
        /\ Has(runs[i].body, "text") /\ runs[i].body.text \in Strings \ {<<>>}

\* C18: a route without its credentials issues no request to its external
\* service and answers a valid request with a successful mock result: the
\* recognize route with confidence 0.85 and the phrase picked by the length of
\* its input alone, the parse route with confidence 0.7 and mock = true.
C18_MockWithoutCredentials ==
  /\ \A i \in 1..Len(runs) :
       (Answered(i) /\ runs[i].at = "ocr" /\ ~myscriptKeys) => runs[i].service = NoService
  /\ \A i \in 1..Len(runs) :
       (Answered(i) /\ runs[i].at = "parse" /\ ~apiKey) => runs[i].service = NoService
  /\ \A i \in 1..Len(runs) :
       (AnsweredWithoutKeys(i) /\ runs[i].at = "ocr") =>
         /\ runs[i].net.ok /\ runs[i].net.body.success
         /\ runs[i].net.body.confidence = 85
         /\ runs[i].net.body.text =
              mockResponses[(Len(MockInput(runs[i].body)) % Len(mockResponses)) + 1]
  /\ \A i \in 1..Len(runs) :
       (AnsweredWithoutKeys(i) /\ runs[i].at = "parse") =>
         /\ runs[i].net.ok /\ runs[i].net.body.success
         /\ runs[i].net.body.mock = TRUE
         /\ runs[i].net.body.data.confidence_score = 70
  /\ \A i, j \in 1..Len(runs) :
       ( /\ AnsweredWithoutKeys(i) /\ runs[i].at = "ocr"
         /\ AnsweredWithoutKeys(j) /\ runs[j].at = "ocr"
         /\ Len(MockInput(runs[i].body)) = Len(MockInput(runs[j].body)) ) =>
         runs[i].net.body.text = runs[j].net.body.text

\* both routes have answered with their mock results, the recognize route for
\* strokes without an image
C18_Witness ==
  \E i, j \in 1..Len(runs) :
    /\ AnsweredWithoutKeys(i) /\ runs[i].at = "ocr" /\ ~Has(runs[i].body, "imageData")
    /\ runs[i].net.body.confidence = 85
    /\ AnsweredWithoutKeys(j) /\ runs[j].at = "parse" /\ runs[j].net.body.mock = TRUE

\* ------------------------------------------------------------------------
\* the messages the orchestrator writes itself
FixedMessages ==
  {"OCR processing failed",
   "No text could be extracted from the handwriting",
   "Text parsing failed",
   "Failed to parse booking data",
   "An unexpected error occurred",
   "Please provide some input before processing",
   "Failed to create booking. Please try again.",
   "Estimate creation feature is coming soon!"}

\* C19: the error banner only ever shows one of the fixed messages of the
\* component (or nothing), never the message of a rejected fetch and never an
\* error string taken from a service response.
C19_FixedMessages == error = "" \/ error \in FixedMessages

maxLength == 1

\* characterCount > maxLength
isOverLimit(value) == Len(value) > maxLength

\* C21: text longer than the maximum length is never submitted: no run of a
\* text submit carries text over the limit.
C21_NoOverLimitSubmit ==
  \A i \in 1..Len(runs) :
    runs[i].type = "text" => ~isOverLimit(runs[i].textToProcess)

\* ------------------------------------------------------------------------
\* C22: an editor that opens shows the stored value of its field: the edit
\* button of an EditableField (perField) and startEditing (perForm), after any
\* earlier edits, saves and cancels.
C22_EditorPrefilled ==
  [][/\ (variant = "perField" /\ last'.op = "setIsEditing") =>
          \A f \in EditedFields :
            (~editors[f].isEditing /\ editors'[f].isEditing) =>
              editors'[f].editValue = OrEmpty(localData', f)
     /\ (variant = "perForm" /\ last'.op = "startEditing") =>
          tempValues'[editingField'] = OrEmpty(currentData', editingField')]_vars

\* ------------------------------------------------------------------------
\* what the preview shows for a field: the editor's text while it is open, the
\* stored value otherwise
Shown(f) ==
  IF variant = "perField"
    THEN IF editors[f].isEditing THEN editors[f].editValue ELSE OrEmpty(localData, f)
    ELSE IF editingField = f THEN OrEmpty(tempValues, f) ELSE OrEmpty(currentData, f)

\* C23: the record changes only in a step of saveEdit (perForm) or handleSave
\* (perField); opening an editor, typing in it and cancelling leave it as it
\* is, and after a cancel the field shows its stored, pre-edit value.
C23_OnlySaveChanges ==
  [][/\ (currentData' # currentData \/ localData' # localData) =>
          last'.op \in {"saveEdit", "handleSave"}
     /\ (last'.op \in {"cancelEdit", "handleCancel"}) =>
          \A f \in EditedFields :
            (IF variant = "perField" THEN editors[f].isEditing /\ ~editors'[f].isEditing
             ELSE editingField = f) =>
              Shown(f)' = IF variant = "perField" THEN OrEmpty(localData, f)
                          ELSE OrEmpty(currentData, f)]_vars

\* an edit of the customer name was cancelled
C23_Witness ==
  /\ last.op \in {"cancelEdit", "handleCancel"}
  /\ Has(currentData, "customer_name")
  /\ Shown("customer_name") = currentData.customer_name

\* ------------------------------------------------------------------------
\* C24: Edit Input leaves the preview for 'input' and discards the record: in
\* 'input' no record of an earlier extraction is held.
C24_EditDiscards ==
  /\ [](currentStep = "input" => parsedData = NoRecord)
  /\ [][(last'.op = "onEdit") => (currentStep' = "input" /\ parsedData' = NoRecord)]_vars

\* ------------------------------------------------------------------------
\* C25: undoLast removes the most recent stroke and keeps the earlier ones in
\* order, clearCanvas removes all strokes, neither acts on an empty canvas, and
\* when the canvas is left empty the parent holds empty input and the submit
\* button is disabled.
C25_UndoAndClear ==
  [][/\ (last'.op = "undoLast") =>
          /\ strokes # <<>>
          /\ Len(strokes') = Len(strokes) - 1
          /\ \A k \in 1..Len(strokes') : strokes'[k] = strokes[k]
     /\ (last'.op = "clearCanvas") => (strokes # <<>> /\ strokes' = <<>>)
     /\ (last'.op \in {"undoLast", "clearCanvas"} /\ strokes' = <<>>) =>
          (inputData' = <<>> /\ ~hasInput' /\ ~SubmitEnabled')]_vars

\* the older of two different strokes is what an undo has left
C25_Witness ==
  /\ last.op = "undoLast" /\ strokes = <<"-">> /\ inputData = toDataURL(1)

\* ------------------------------------------------------------------------
\* C26: with the recognition keys set, a recognize request of the orchestrator
\* that carries image data is never answered as invalid input: the route hands
\* it to the recognition service.
C26_DrawingAccepted ==
  \A i \in 1..Len(runs) :
    ( /\ variant = "inline" /\ myscriptKeys
      /\ runs[i].type = "canvas" /\ runs[i].at = "ocr" /\ Answered(i)
      /\ ~Falsy(runs[i].body, "imageData") ) =>
      /\ runs[i].net.status # 400
      /\ runs[i].service # NoService

\* ------------------------------------------------------------------------
\* the step saves the edit of field f
Saves(f) ==
  IF variant = "perField" THEN editors[f].isEditing /\ ~editors'[f].isEditing
  ELSE editingField = f

\* records a and b hold the same keys and agree on every key but f
SameBut(a, b, f) ==
  /\ DOMAIN a \ {f} = DOMAIN b \ {f}
  /\ \A k \in DOMAIN a \ {f} : a[k] = b[k]

\* C27: a save changes only the field it names: every other field of the
\* record and its confidence score stay as they were, whatever other editors
\* are open, and the confidences of the fields are not touched.
C27_SaveOnlyNamedField ==
  [][(last'.op \in {"saveEdit", "handleSave"}) =>
       /\ \A f \in EditedFields :
            Saves(f) => /\ SameBut(currentData, currentData', f)
                        /\ SameBut(localData, localData', f)
       /\ fieldConfidence' = fieldConfidence]_vars

\* the customer name was saved while the editor of the vehicle is open and
\* holds text that is not stored
C27_Witness ==
  /\ variant = "perField" /\ last.op = "handleSave"
  /\ ~editors.customer_name.isEditing /\ editors.vehicle.isEditing
  /\ editors.vehicle.editValue = <<"a", "a">>
  /\ OrEmpty(localData, "customer_name") = <<"a">>
  /\ OrEmpty(localData, "vehicle") # <<"a", "a">>
  /\ Has(localData, "confidence_score")

C29_ProcessingMatchesStep ==
  /\ isProcessing <=> currentStep \in {"processing", "ocr", "parsing"}
  /\ ~isProcessing <=> currentStep \in {"input", "preview", "error"}
  /\ runs # <<>> => (isProcessing /\ ~InputSectionShown)
  /\ runs = <<>> => ~isProcessing

\* a call is pending
C29_Witness ==
  /\ isProcessing /\ currentStep = "ocr" /\ runs # <<>> /\ runs[1].net = Pending

\* ------------------------------------------------------------------------
\* the recognize request of run i has an ok answer whose text is not blank
Recognized(i) ==
  /\ runs[i].at = "ocr" /\ Answered(i) /\ runs[i].net.ok
  /\ ~IsBlank(runs[i].net.body.text)

\* the run is over: the preview or the error is on the page
RunOver == currentStep \in {"preview", "error"} /\ ~isProcessing /\ runs = <<>>

\* C30: every submitted run ends, with the preview or in 'error' and with
\* isProcessing false, when each of its requests is answered or rejected; and
\* the step that applies a recognition with text that is not blank issues the
\* parse request itself.
C30_RunTerminates ==
  /\ (runs # <<>>) ~> RunOver
  /\ (\E i \in 1..Len(runs) : Recognized(i)) ~> (currentStep = "parsing")
  /\ [][(\E i \in 1..Len(runs) : Recognized(i)) =>
          \/ UNCHANGED <<runs, currentStep>>
          \/ /\ last'.op = "processInputAfterOcr"
             /\ currentStep' = "parsing" /\ isProcessing'
             /\ Len(runs') = 1 /\ runs'[1].at = "parse" /\ runs'[1].net = Pending]_vars

\* a canvas run whose recognition was applied waits for its parse answer
C30_Witness ==
  /\ last.op = "processInputAfterOcr" /\ currentStep = "parsing"
  /\ runs # <<>> /\ runs[1].type = "canvas" /\ runs[1].at = "parse" /\ runs[1].net = Pending

====
